---------------------------- MODULE Spec2Model ----------------------------
(***************************************************************************)
(* check_mongodb_mms: a Nagios probe that asks the MMS / Ops Manager API   *)
(* for one host (liveness mode) or for one metric of that host (metric     *)
(* mode), compares the value with the critical and warning ranges and      *)
(* exits with the Nagios status code.                                      *)
(*                                                                         *)
(* One run of main() is modelled, one action per step of main, doHostCheck *)
(* and doMetricCheck.  Durations, timestamps and values are fixed-point    *)
(* numbers counted in ticks of 1/Resolution (of a second, or of a unit).   *)
(* Strings that the program parses or rewrites character by character      *)
(* (the threshold strings, the database name) are sequences of             *)
(* one-character strings.                                                  *)
(***************************************************************************)
EXTENDS Integers, Sequences, FiniteSets, TLC

VARIABLES
    groupId, hostname, metricName, dbName, warning, critical, maxAge,
    pc, usagePrinted, exitCode, output,
    checkCreated, results, perfData,
    apiErr, hostErr, metricErr, requests,
    now, host, dataPoints, lastDataPoint, age, critRange, warnRange,
    trace

flags == <<groupId, hostname, metricName, dbName, warning, critical, maxAge>>
checkVars == <<checkCreated, results, perfData>>
apiVars == <<apiErr, hostErr, metricErr, requests>>
locals == <<host, dataPoints, lastDataPoint, age, critRange, warnRange>>
procVars == <<usagePrinted, exitCode, output>>
vars == <<flags, pc, procVars, checkVars, apiVars, now, locals, trace>>

---------------------------------------------------------------------------
(* Bounds of the model.                                                    *)

\* ticks per second (and per unit of a metric value)
Resolution == 2
\* the latest clock reading, in seconds after the service's newest timestamp
MaxAge == 2
\* the largest metric value
MaxValue == 1
\* the longest series the service returns
MaxPoints == 2

---------------------------------------------------------------------------
(* The clock.  Time is counted from the newest timestamp of the service's  *)
(* answer (the host's last ping, the last data point of a series).  The    *)
(* service's clock may run ahead of the probe's by a tick, so an age can   *)
(* be negative.                                                            *)

\* what time.Now() can return when time.Since is called
Clock == -1 .. (MaxAge * Resolution)

\* time.Since(t), the clock reading now
Since(clock, t) == clock - t

Values == -1 .. MaxValue
MaxAges == -1 .. (MaxAge - 1)

\* int(d.Seconds()): Go's float-to-int conversion truncates toward zero
IntSeconds(d) == IF d >= 0 THEN d \div Resolution ELSE -((-d) \div Resolution)

\* a float64 metric value as a fixed-point number
Fixed(v) == v * Resolution

---------------------------------------------------------------------------
(* Threshold ranges (nagiosplugin.ParseRange, Range.Check).                *)

DigitChars == <<"0", "1", "2", "3", "4", "5", "6", "7", "8", "9">>

IsDigit(c) == \E d \in 1 .. Len(DigitChars) : DigitChars[d] = c

DigitValue(c) == (CHOOSE d \in 1 .. Len(DigitChars) : DigitChars[d] = c) - 1

IsNumber(s) == Len(s) > 0 /\ \A i \in 1 .. Len(s) : IsDigit(s[i])

RECURSIVE ParseNumber(_)
ParseNumber(s) ==
    IF s = <<>> THEN 0
    ELSE 10 * ParseNumber(SubSeq(s, 1, Len(s) - 1)) + DigitValue(s[Len(s)])

\* position of the first c in s, 0 when there is none
IndexOf(s, c) ==
    IF \E i \in 1 .. Len(s) : s[i] = c
    THEN CHOOSE i \in 1 .. Len(s) : s[i] = c /\ \A j \in 1 .. (i - 1) : s[j] # c
    ELSE 0

\* a bound of a range: inf = -1 / 1 for an open end, else the number n
NegInf == [inf |-> -1, n |-> 0]
PosInf == [inf |-> 1, n |-> 0]
Finite(k) == [inf |-> 0, n |-> k]

NoRange == [ok |-> FALSE, Start |-> Finite(0), End |-> Finite(0), AlertOnInside |-> FALSE]

\* x < b and x > b for a fixed-point x and a bound b given in whole units
Below(x, b) == b.inf = 1 \/ (b.inf = 0 /\ x < Fixed(b.n))
Above(x, b) == b.inf = -1 \/ (b.inf = 0 /\ x > Fixed(b.n))

\* the lower bound written by the text before the colon
ParseStart(s) ==
    IF s = <<>> THEN [ok |-> TRUE, b |-> Finite(0)]
    ELSE IF s = <<"~">> THEN [ok |-> TRUE, b |-> NegInf]
    ELSE IF IsNumber(s) THEN [ok |-> TRUE, b |-> Finite(ParseNumber(s))]
    ELSE [ok |-> FALSE, b |-> Finite(0)]

\* the upper bound written by the text after the colon (or by the bare value)
ParseEnd(s) ==
    IF s = <<>> \/ s = <<"~">> THEN [ok |-> TRUE, b |-> PosInf]
    ELSE IF IsNumber(s) THEN [ok |-> TRUE, b |-> Finite(ParseNumber(s))]
    ELSE [ok |-> FALSE, b |-> Finite(0)]

\* "[@]start:end", "~" for an open end, a bare value v for 0:v
ParseRange(spec) ==
    LET inside == Len(spec) > 0 /\ spec[1] = "@"
        body == IF inside THEN Tail(spec) ELSE spec
        colon == IndexOf(body, ":")
        start == IF colon = 0 THEN [ok |-> TRUE, b |-> Finite(0)]
                 ELSE ParseStart(SubSeq(body, 1, colon - 1))
        end == IF colon = 0 THEN ParseEnd(body)
               ELSE ParseEnd(SubSeq(body, colon + 1, Len(body)))
    IN  IF body # <<>> /\ start.ok /\ end.ok
        THEN [ok |-> TRUE, Start |-> start.b, End |-> end.b, AlertOnInside |-> inside]
        ELSE NoRange

\* TRUE when the value is in the violation condition of the range
Check(range, x) ==
    IF range.AlertOnInside
    THEN ~Below(x, range.Start) /\ ~Above(x, range.End)
    ELSE Below(x, range.Start) \/ Above(x, range.End)

\* the threshold strings given with -c and -w
Thresholds ==
    { <<"~", ":">>, <<"1">>, <<"0">>, <<"@", "0", ":", "1">>, <<"x">> }

---------------------------------------------------------------------------
(* Severities and the check (nagiosplugin.Check).                          *)

OK == "OK"
WARNING == "WARNING"
CRITICAL == "CRITICAL"
UNKNOWN == "UNKNOWN"

Status == {OK, WARNING, CRITICAL, UNKNOWN}

StatusCode == [s \in Status |-> CASE s = OK -> 0 [] s = WARNING -> 1 [] s = CRITICAL -> 2 [] s = UNKNOWN -> 3]

Result(status, message) == [status |-> status, message |-> message]

\* check.AddResultf(status, format, args...)
AddResultf(status, message) == results' = Append(results, Result(status, message))

\* the status of the check: the result with the highest code
RECURSIVE Worst(_)
Worst(rs) ==
    IF Len(rs) = 1 THEN rs[1]
    ELSE LET w == Worst(Tail(rs))
         IN  IF StatusCode[rs[1].status] >= StatusCode[w.status] THEN rs[1] ELSE w

\* the line the check prints: status, message and the performance data
Render(rs, perf) == [status |-> Worst(rs).status, message |-> Worst(rs).message, perfdata |-> perf]

\* a formatted message: the format, its string argument and its numbers
Msg(format, text, a, b) == [format |-> format, text |-> text, a |-> a, b |-> b]

NoOutput == [status |-> "", message |-> Msg("", "", 0, 0), perfdata |-> <<>>]

PerfDatum(label, unit, value) == [label |-> label, unit |-> unit, value |-> value]

---------------------------------------------------------------------------
(* The API client (util.MMSAPI).                                           *)

Nil == "nil"
Pending == "pending"

\* url.QueryEscape of one character, then "+" rewritten to "%20"
EscapeChar(c) ==
    CASE c = " " -> <<"%", "2", "0">>
      [] c = "/" -> <<"%", "2", "F">>
      [] c = "+" -> <<"%", "2", "B">>
      [] OTHER -> <<c>>

RECURSIVE escape(_)
escape(piece) ==
    IF piece = <<>> THEN <<>> ELSE EscapeChar(Head(piece)) \o escape(Tail(piece))

\* the paths of the three requests
HostByNamePath(g, name) ==
    [resource |-> "hosts/byName", group |-> g, host |-> name, metric |-> "", db |-> <<>>]
HostMetricPath(g, id, m) ==
    [resource |-> "metrics", group |-> g, host |-> id, metric |-> m, db |-> <<>>]
HostDBMetricPath(g, id, m, db) ==
    [resource |-> "metrics", group |-> g, host |-> id, metric |-> m, db |-> escape(db)]

\* the errors doGet returns: client.Get failed, the body could not be read,
\* a status other than 200 with or without a JSON error body
doGetErrors ==
    { "Failed to make HTTP request", "Failed to read HTTP response body",
      "API response did not contain valid JSON", "API Error" }

unMarshalJSONErrors == { "Response did not contain valid JSON" }

FetchErrors == doGetErrors \cup unMarshalJSONErrors

\* the error NewTransport(...).Client() returns
ClientErrors == { "client error" }

\* a doGet that sends the request a second time
doGet_Retry(path) == Append(Append(requests, path), path)

\* api.doGet(path) issues one GET
doGet(path) == Append(requests, path)

NoHost == [Id |-> "", LastPing |-> 0]
Hosts == { [Id |-> id, LastPing |-> 0] : id \in {"h1"} }

NoDataPoint == [Timestamp |-> 0, Value |-> 0]

\* a series has one point per granularity interval, the newest one last
SeriesOf(n) ==
    { [i \in 1 .. n |-> [Timestamp |-> 0 - (n - i) * Resolution, Value |-> vs[i]]] :
        vs \in [1 .. n -> Values] }

MetricSeries == UNION { SeriesOf(n) : n \in 0 .. MaxPoints }

\* metric.ToStringLastDataPoint()
ToStringLastDataPoint(name, points) ==
    Msg("%v: %v %v", name, points[Len(points)].Timestamp, points[Len(points)].Value)

---------------------------------------------------------------------------
(* The run.                                                                *)

\* setupFlags(): the flags as parsed from the command line
Init ==
    /\ groupId \in {"", "g1"}
    /\ hostname \in {"", "db1:27017"}
    /\ metricName \in {"", "OPCOUNTERS_CMD"}
    /\ dbName \in {<<>>, <<"a", " ", "/", "+">>}
    /\ warning \in Thresholds
    /\ critical \in Thresholds
    /\ maxAge \in MaxAges
    /\ pc = "main"
    /\ usagePrinted = FALSE
    /\ exitCode = -1
    /\ output = NoOutput
    /\ checkCreated = FALSE
    /\ results = <<>>
    /\ perfData = <<>>
    /\ apiErr = Pending
    /\ hostErr = Pending
    /\ metricErr = Pending
    /\ requests = <<>>
    /\ now = 0
    /\ host = NoHost
    /\ dataPoints = <<>>
    /\ lastDataPoint = NoDataPoint
    /\ age = 0
    /\ critRange = NoRange
    /\ warnRange = NoRange
    /\ trace = <<>>

\* the test with && for ||: usage only when both are missing
UsageRequired_Both == hostname = "" /\ groupId = ""

\* main: the test for a missing -g or -H
UsageRequired == hostname = "" \/ groupId = ""

\* main: flag.Usage(); os.Exit(2)
Usage ==
    /\ pc = "main"
    /\ UsageRequired
    /\ usagePrinted' = TRUE
    /\ exitCode' = 2
    /\ pc' = "exited"
    /\ UNCHANGED <<flags, now, output, checkVars, apiVars, locals, trace>>

\* main: check := nagiosplugin.NewCheck(); defer check.Finish()
NewCheck ==
    /\ pc = "main"
    /\ ~UsageRequired
    /\ checkCreated' = TRUE
    /\ pc' = "NewMMSAPI"
    /\ UNCHANGED <<flags, now, procVars, results, perfData, apiVars, locals, trace>>

\* main: api, err := util.NewMMSAPI(...)
NewMMSAPI ==
    /\ pc = "NewMMSAPI"
    /\ \/ \E e \in ClientErrors :
            /\ apiErr' = e
            /\ AddResultf(UNKNOWN, Msg("Failed to create API. Error: %v", e, 0, 0))
            /\ pc' = "Finish"
       \/ /\ apiErr' = Nil
          /\ pc' = "GetHostByName"
          /\ UNCHANGED results
    /\ UNCHANGED <<flags, now, procVars, checkCreated, perfData, hostErr, metricErr,
                   requests, locals, trace>>

\* GetHostByName without the return after the UNKNOWN result
GetHostByName_NoReturn ==
    /\ pc = "GetHostByName"
    /\ requests' = doGet(HostByNamePath(groupId, hostname))
    /\ \/ \E e \in FetchErrors :
            /\ hostErr' = e
            /\ AddResultf(UNKNOWN, Msg("%v", e, 0, 0))
            /\ UNCHANGED host
       \/ \E h \in Hosts :
            /\ hostErr' = Nil
            /\ host' = h
            /\ UNCHANGED results
    /\ pc' = IF metricName = "" THEN "doHostCheck" ELSE "doMetricCheck"
    /\ UNCHANGED <<flags, now, procVars, checkCreated, perfData, apiErr, metricErr,
                   dataPoints, lastDataPoint, age, critRange, warnRange, trace>>

\* main: host, err := api.GetHostByName(groupId, hostname), and the choice
\* between doHostCheck and doMetricCheck
GetHostByName ==
    /\ pc = "GetHostByName"
    /\ requests' = doGet(HostByNamePath(groupId, hostname))
    /\ \/ \E e \in FetchErrors :
            /\ hostErr' = e
            /\ AddResultf(UNKNOWN, Msg("%v", e, 0, 0))
            /\ pc' = "Finish"
            /\ UNCHANGED host
       \/ \E h \in Hosts :
            /\ hostErr' = Nil
            /\ host' = h
            /\ pc' = IF metricName = "" THEN "doHostCheck" ELSE "doMetricCheck"
            /\ UNCHANGED results
    /\ UNCHANGED <<flags, now, procVars, checkCreated, perfData, apiErr, metricErr,
                   dataPoints, lastDataPoint, age, critRange, warnRange, trace>>

---------------------------------------------------------------------------
(* doHostCheck: liveness mode.                                             *)

LastPingMessage(d) == Msg("Last ping was %v seconds ago", "", d, 0)

\* age := time.Since(host.LastPing); critRange, err := ParseRange(critical)
doHostCheckParseCritical ==
    /\ pc = "doHostCheck"
    /\ now' \in Clock
    /\ age' = Since(now', host.LastPing)
    /\ critRange' = ParseRange(critical)
    /\ trace' = trace \o <<"time.Since", "ParseRange(critical)">>
    /\ IF ~critRange'.ok
       THEN /\ AddResultf(UNKNOWN, Msg("Error parsing critical range. Error: %v", "ParseError", 0, 0))
            /\ pc' = "Finish"
       ELSE /\ pc' = "doHostCheckCritical"
            /\ UNCHANGED results
    /\ UNCHANGED <<flags, procVars, checkCreated, perfData, apiVars, host,
                   dataPoints, lastDataPoint, warnRange>>

\* doHostCheck with the warning range tested before the critical range
doHostCheckCritical_WarningFirst ==
    /\ pc = "doHostCheckCritical"
    /\ trace' = Append(trace, "Check(critical)")
    /\ IF ParseRange(warning).ok /\ Check(ParseRange(warning), age)
       THEN /\ AddResultf(WARNING, LastPingMessage(age))
            /\ pc' = "Finish"
       ELSE IF Check(critRange, age)
       THEN /\ AddResultf(CRITICAL, LastPingMessage(age))
            /\ pc' = "Finish"
       ELSE /\ pc' = "doHostCheckParseWarning"
            /\ UNCHANGED results
    /\ UNCHANGED <<flags, now, procVars, checkCreated, perfData, apiVars, locals>>

\* if critRange.Check(age.Seconds()) { CRITICAL; return }
doHostCheckCritical ==
    /\ pc = "doHostCheckCritical"
    /\ trace' = Append(trace, "Check(critical)")
    /\ IF Check(critRange, age)
       THEN /\ AddResultf(CRITICAL, LastPingMessage(age))
            /\ pc' = "Finish"
       ELSE /\ pc' = "doHostCheckParseWarning"
            /\ UNCHANGED results
    /\ UNCHANGED <<flags, now, procVars, checkCreated, perfData, apiVars, locals>>

\* doHostCheck that drops the error of ParseRange(warning)
doHostCheckParseWarning_IgnoreError ==
    /\ pc = "doHostCheckParseWarning"
    /\ warnRange' = ParseRange(warning)
    /\ trace' = Append(trace, "ParseRange(warning)")
    /\ pc' = "doHostCheckWarning"
    /\ UNCHANGED <<flags, now, procVars, checkVars, apiVars, host,
                   dataPoints, lastDataPoint, age, critRange>>

\* warnRange, err := ParseRange(warning)
doHostCheckParseWarning ==
    /\ pc = "doHostCheckParseWarning"
    /\ warnRange' = ParseRange(warning)
    /\ trace' = Append(trace, "ParseRange(warning)")
    /\ IF ~warnRange'.ok
       THEN /\ AddResultf(UNKNOWN, Msg("Error parsing warning range. Error: %v", "ParseError", 0, 0))
            /\ pc' = "Finish"
       ELSE /\ pc' = "doHostCheckWarning"
            /\ UNCHANGED results
    /\ UNCHANGED <<flags, now, procVars, checkCreated, perfData, apiVars, host,
                   dataPoints, lastDataPoint, age, critRange>>

\* if warnRange.Check(age.Seconds()) { WARNING; return }; OK
doHostCheckWarning ==
    /\ pc = "doHostCheckWarning"
    /\ trace' = Append(trace, "Check(warning)")
    /\ IF Check(warnRange, age)
       THEN AddResultf(WARNING, LastPingMessage(age))
       ELSE AddResultf(OK, LastPingMessage(age))
    /\ pc' = "Finish"
    /\ UNCHANGED <<flags, now, procVars, checkCreated, perfData, apiVars, locals>>

---------------------------------------------------------------------------
(* doMetricCheck: metric mode.                                             *)

\* the outcome of a metric fetch: an error, or a series
MetricFetched ==
    \/ \E e \in FetchErrors :
         /\ metricErr' = e
         /\ AddResultf(UNKNOWN, Msg("%v", e, 0, 0))
         /\ pc' = "Finish"
         /\ UNCHANGED dataPoints
    \/ \E series \in MetricSeries :
         /\ metricErr' = Nil
         /\ dataPoints' = series
         /\ pc' = "doMetricCheckLen"
         /\ UNCHANGED results

\* dbName == "": metric, err = api.GetHostMetric(...)
GetHostMetric ==
    /\ pc = "doMetricCheck"
    /\ dbName = <<>>
    /\ requests' = doGet(HostMetricPath(groupId, host.Id, metricName))
    /\ MetricFetched
    /\ UNCHANGED <<flags, now, procVars, checkCreated, perfData, apiErr, hostErr,
                   host, lastDataPoint, age, critRange, warnRange, trace>>

\* dbName != "": metric, err = api.GetHostDBMetric(...)
GetHostDBMetric ==
    /\ pc = "doMetricCheck"
    /\ dbName # <<>>
    /\ requests' = doGet(HostDBMetricPath(groupId, host.Id, metricName, dbName))
    /\ MetricFetched
    /\ UNCHANGED <<flags, now, procVars, checkCreated, perfData, apiErr, hostErr,
                   host, lastDataPoint, age, critRange, warnRange, trace>>

\* the empty-series branch without its return
doMetricCheckNoData_NoReturn ==
    /\ pc = "doMetricCheckLen"
    /\ Len(dataPoints) = 0
    /\ AddResultf(UNKNOWN, Msg("No data points found for %v", metricName, 0, 0))
    /\ pc' = "doMetricCheckAge"
    /\ UNCHANGED <<flags, now, procVars, checkCreated, perfData, apiVars, locals, trace>>

\* if len(metric.DataPoints) == 0 { UNKNOWN; return }
doMetricCheckNoData ==
    /\ pc = "doMetricCheckLen"
    /\ Len(dataPoints) = 0
    /\ AddResultf(UNKNOWN, Msg("No data points found for %v", metricName, 0, 0))
    /\ pc' = "Finish"
    /\ UNCHANGED <<flags, now, procVars, checkCreated, perfData, apiVars, locals, trace>>

\* lastDataPoint := metric.DataPoints[len-1]; age := time.Since(its Timestamp)
doMetricCheckLastDataPoint ==
    /\ pc = "doMetricCheckLen"
    /\ Len(dataPoints) # 0
    /\ lastDataPoint' = dataPoints[Len(dataPoints)]
    /\ now' \in Clock
    /\ age' = Since(now', lastDataPoint'.Timestamp)
    /\ trace' = trace \o <<"lastDataPoint", "time.Since">>
    /\ pc' = "doMetricCheckAge"
    /\ UNCHANGED <<flags, procVars, checkVars, apiVars, host, dataPoints,
                   critRange, warnRange>>

\* the staleness test with >= for >
IsStale_AtLeast(d) == IntSeconds(d) >= maxAge

\* int(age.Seconds()) > maxAge
IsStale(d) == IntSeconds(d) > maxAge

\* if int(age.Seconds()) > maxAge { CRITICAL; return }
doMetricCheckStale ==
    /\ pc = "doMetricCheckAge"
    /\ IsStale(age)
    /\ AddResultf(CRITICAL, Msg("Last data point for %v is %v seconds old.", metricName, IntSeconds(age), 0))
    /\ pc' = "Finish"
    /\ UNCHANGED <<flags, now, procVars, checkCreated, perfData, apiVars, locals, trace>>

\* the performance datum taken from the first data point
doMetricCheckAddPerfDatum_First ==
    /\ pc = "doMetricCheckAge"
    /\ ~(IntSeconds(age) > maxAge)
    /\ perfData' = Append(perfData, PerfDatum(metricName, "", dataPoints[1].Value))
    /\ trace' = Append(trace, "AddPerfDatum")
    /\ pc' = "doMetricCheckParseCritical"
    /\ UNCHANGED <<flags, now, procVars, checkCreated, results, apiVars, locals>>

\* check.AddPerfDatum(metricName, "", lastDataPoint.Value)
doMetricCheckAddPerfDatum ==
    /\ pc = "doMetricCheckAge"
    /\ ~IsStale(age)
    /\ perfData' = Append(perfData, PerfDatum(metricName, "", lastDataPoint.Value))
    /\ trace' = Append(trace, "AddPerfDatum")
    /\ pc' = "doMetricCheckParseCritical"
    /\ UNCHANGED <<flags, now, procVars, checkCreated, results, apiVars, locals>>

\* critRange, err := ParseRange(critical)
doMetricCheckParseCritical ==
    /\ pc = "doMetricCheckParseCritical"
    /\ critRange' = ParseRange(critical)
    /\ trace' = Append(trace, "ParseRange(critical)")
    /\ IF ~critRange'.ok
       THEN /\ AddResultf(UNKNOWN, Msg("Error parsing critical range. Error: %v", "ParseError", 0, 0))
            /\ pc' = "Finish"
       ELSE /\ pc' = "doMetricCheckCritical"
            /\ UNCHANGED results
    /\ UNCHANGED <<flags, now, procVars, checkCreated, perfData, apiVars, host,
                   dataPoints, lastDataPoint, age, warnRange>>

\* the critical branch without its return
doMetricCheckCritical_NoReturn ==
    /\ pc = "doMetricCheckCritical"
    /\ trace' = Append(trace, "Check(critical)")
    /\ IF Check(critRange, Fixed(lastDataPoint.Value))
       THEN AddResultf(CRITICAL, ToStringLastDataPoint(metricName, dataPoints))
       ELSE UNCHANGED results
    /\ pc' = "doMetricCheckParseWarning"
    /\ UNCHANGED <<flags, now, procVars, checkCreated, perfData, apiVars, locals>>

\* if critRange.Check(lastDataPoint.Value) { CRITICAL; return }
doMetricCheckCritical ==
    /\ pc = "doMetricCheckCritical"
    /\ trace' = Append(trace, "Check(critical)")
    /\ IF Check(critRange, Fixed(lastDataPoint.Value))
       THEN /\ AddResultf(CRITICAL, ToStringLastDataPoint(metricName, dataPoints))
            /\ pc' = "Finish"
       ELSE /\ pc' = "doMetricCheckParseWarning"
            /\ UNCHANGED results
    /\ UNCHANGED <<flags, now, procVars, checkCreated, perfData, apiVars, locals>>

\* warnRange, err := ParseRange(warning)
doMetricCheckParseWarning ==
    /\ pc = "doMetricCheckParseWarning"
    /\ warnRange' = ParseRange(warning)
    /\ trace' = Append(trace, "ParseRange(warning)")
    /\ IF ~warnRange'.ok
       THEN /\ AddResultf(UNKNOWN, Msg("Error parsing warning range. Error: %v", "ParseError", 0, 0))
            /\ pc' = "Finish"
       ELSE /\ pc' = "doMetricCheckWarning"
            /\ UNCHANGED results
    /\ UNCHANGED <<flags, now, procVars, checkCreated, perfData, apiVars, host,
                   dataPoints, lastDataPoint, age, critRange>>

\* if warnRange.Check(lastDataPoint.Value) { WARNING; return }; OK
doMetricCheckWarning ==
    /\ pc = "doMetricCheckWarning"
    /\ trace' = Append(trace, "Check(warning)")
    /\ IF Check(warnRange, Fixed(lastDataPoint.Value))
       THEN AddResultf(WARNING, ToStringLastDataPoint(metricName, dataPoints))
       ELSE AddResultf(OK, ToStringLastDataPoint(metricName, dataPoints))
    /\ pc' = "Finish"
    /\ UNCHANGED <<flags, now, procVars, checkCreated, perfData, apiVars, locals>>

---------------------------------------------------------------------------
(* The deferred check.Finish(): a check without a result is UNKNOWN; the   *)
(* line is printed and the process exits with the code of the status.      *)

\* main without the defer: it returns and the process exits with 0
Finish_NotDeferred ==
    /\ pc = "Finish"
    /\ exitCode' = 0
    /\ pc' = "exited"
    /\ UNCHANGED <<flags, now, usagePrinted, output, checkVars, apiVars, locals, trace>>

Finish ==
    /\ pc = "Finish"
    /\ results' = IF results = <<>>
                  THEN <<Result(UNKNOWN, Msg("no check result specified", "", 0, 0))>>
                  ELSE results
    /\ output' = Render(results', perfData)
    /\ exitCode' = StatusCode[output'.status]
    /\ pc' = "exited"
    /\ UNCHANGED <<flags, now, usagePrinted, checkCreated, perfData, apiVars, locals, trace>>

Next ==
    \/ Usage
    \/ NewCheck
    \/ NewMMSAPI
    \/ GetHostByName
    \/ doHostCheckParseCritical
    \/ doHostCheckCritical
    \/ doHostCheckParseWarning
    \/ doHostCheckWarning
    \/ GetHostMetric
    \/ GetHostDBMetric
    \/ doMetricCheckNoData
    \/ doMetricCheckLastDataPoint
    \/ doMetricCheckStale
    \/ doMetricCheckAddPerfDatum
    \/ doMetricCheckParseCritical
    \/ doMetricCheckCritical
    \/ doMetricCheckParseWarning
    \/ doMetricCheckWarning
    \/ Finish

Spec == Init /\ [][Next]_vars

---------------------------------------------------------------------------
(* Properties.                                                             *)

Exited == pc = "exited"
Returned == pc \in {"Finish", "exited"}
FlagsGiven == groupId # "" /\ hostname # ""
MetricMode == metricName # ""
Failed(e) == e \notin {Pending, Nil}

\* position of the first event e in the trace, 0 when it did not happen
Pos(e) ==
    IF \E i \in 1 .. Len(trace) : trace[i] = e
    THEN CHOOSE i \in 1 .. Len(trace) : trace[i] = e /\ \A j \in 1 .. (i - 1) : trace[j] # e
    ELSE 0

Happened(e) == Pos(e) > 0

EvaluationEvents ==
    { "ParseRange(critical)", "Check(critical)", "ParseRange(warning)", "Check(warning)",
      "AddPerfDatum" }

NoEvaluation == \A e \in EvaluationEvents : ~Happened(e)

CriticalValid == ParseRange(critical).ok
WarningValid == ParseRange(warning).ok

\* the last data point of the fetched series and its age in ticks
LastPoint == dataPoints[Len(dataPoints)]
PointAge == now - LastPoint.Timestamp

\* a duration in whole seconds, the fraction dropped (toward zero)
Truncated(d) ==
    CHOOSE k \in -(MaxAge + MaxPoints + 1) .. (MaxAge + MaxPoints + 1) :
        \/ d >= 0 /\ k >= 0 /\ k * Resolution <= d /\ d < (k + 1) * Resolution
        \/ d < 0 /\ k <= 0 /\ (k - 1) * Resolution < d /\ d <= k * Resolution

HasPoints == MetricMode /\ hostErr = Nil /\ metricErr = Nil /\ dataPoints # <<>>
StalePoint == HasPoints /\ Truncated(PointAge) > maxAge
FreshPoint == HasPoints /\ Truncated(PointAge) <= maxAge

\* the thresholds are evaluated: liveness mode with a host, or a fresh point
Evaluates == hostErr = Nil /\ (MetricMode => FreshPoint)

\* the value the thresholds are applied to, as a fixed-point number
Evaluated == IF MetricMode THEN Fixed(LastPoint.Value) ELSE now - host.LastPing

ViolatesCritical == Check(ParseRange(critical), Evaluated)
ViolatesWarning == Check(ParseRange(warning), Evaluated)

\* the severity the two ranges give the evaluated value
ByThresholds ==
    IF ~CriticalValid THEN UNKNOWN
    ELSE IF ViolatesCritical THEN CRITICAL
    ELSE IF ~WarningValid THEN UNKNOWN
    ELSE IF ViolatesWarning THEN WARNING
    ELSE OK

\* C1: once both -g and -H are given, the check holds no result while main
\* runs and exactly one result from the moment main returns
C1_ExactlyOneResult ==
    FlagsGiven =>
        /\ Returned => Len(results) = 1
        /\ ~Returned => Len(results) = 0

C1_Witness ==
    /\ Exited /\ FlagsGiven /\ MetricMode /\ FreshPoint
    /\ CriticalValid /\ ViolatesCritical
    /\ Len(results) = 1 /\ results[1].status = CRITICAL

\* C2: with both threshold strings valid, a value that violates the critical
\* range is CRITICAL, one that violates only the warning range is WARNING,
\* one that violates neither is OK, in liveness and in metric mode; the
\* warning range is never tested before the critical range
C2_CriticalBeforeWarning ==
    /\ Happened("Check(warning)") =>
          Happened("Check(critical)") /\ Pos("Check(critical)") < Pos("Check(warning)")
    /\ (Exited /\ FlagsGiven /\ Evaluates /\ CriticalValid /\ WarningValid) =>
          /\ Len(results) = 1
          /\ ViolatesCritical => results[1].status = CRITICAL
          /\ (~ViolatesCritical /\ ViolatesWarning) => results[1].status = WARNING
          /\ (~ViolatesCritical /\ ~ViolatesWarning) => results[1].status = OK

C2_Witness ==
    /\ Exited /\ FlagsGiven /\ ~MetricMode /\ Evaluates
    /\ CriticalValid /\ WarningValid
    /\ ViolatesCritical /\ ViolatesWarning
    /\ ~ParseRange(critical).AlertOnInside /\ ~ParseRange(warning).AlertOnInside
    /\ now > 0
    /\ results[1].status = CRITICAL

\* C3 as stated: a malformed critical or warning string gives UNKNOWN whenever
\* the fetches succeeded, whatever the value and the staleness
C3_AnyMalformedIsUnknown ==
    (Exited /\ FlagsGiven /\ hostErr = Nil /\ (MetricMode => metricErr = Nil)
        /\ (~CriticalValid \/ ~WarningValid)) =>
        /\ Len(results) = 1
        /\ results[1].status = UNKNOWN

\* C3 amended: a malformed critical or warning string gives UNKNOWN whenever
\* the fetches succeeded, unless the last data point is stale (CRITICAL, no
\* string is parsed) or the critical string is valid and the value violates
\* the critical range (CRITICAL, the warning string is not parsed)
C3_ParseFailureIsUnknown ==
    (Exited /\ FlagsGiven /\ hostErr = Nil /\ (MetricMode => metricErr = Nil)
        /\ (~CriticalValid \/ ~WarningValid)) =>
        /\ Len(results) = 1
        /\ IF StalePoint THEN results[1].status = CRITICAL /\ NoEvaluation
           ELSE IF Evaluates /\ CriticalValid /\ ViolatesCritical
           THEN results[1].status = CRITICAL /\ ~Happened("ParseRange(warning)")
           ELSE results[1].status = UNKNOWN
        /\ (Evaluates /\ ~CriticalValid) =>
              results[1].message.format = "Error parsing critical range. Error: %v"
        /\ (Evaluates /\ CriticalValid /\ ~ViolatesCritical) =>
              results[1].message.format = "Error parsing warning range. Error: %v"

C3_Witness ==
    /\ Exited /\ FlagsGiven /\ ~MetricMode /\ Evaluates
    /\ CriticalValid /\ ~ViolatesCritical /\ ~WarningValid
    /\ results[1].status = UNKNOWN

\* C4: in metric mode with at least one data point, a last point older than
\* maxAge whole seconds is CRITICAL whatever its value and the ranges, with no
\* performance datum and no threshold parsed; otherwise the thresholds decide
C4_StalenessFirst ==
    (Exited /\ FlagsGiven /\ HasPoints) =>
        /\ Len(results) = 1
        /\ IF Truncated(PointAge) > maxAge
           THEN /\ results[1] = Result(CRITICAL,
                        Msg("Last data point for %v is %v seconds old.", metricName,
                            Truncated(PointAge), 0))
                /\ perfData = <<>>
                /\ output.perfdata = <<>>
                /\ NoEvaluation
           ELSE /\ results[1].status = ByThresholds
                /\ results[1].message.format # "Last data point for %v is %v seconds old."
                /\ Happened("ParseRange(critical)")

C4_Witness ==
    /\ Exited /\ FlagsGiven /\ StalePoint
    /\ PointAge = (maxAge + 1) * Resolution
    /\ maxAge >= 0
    /\ ByThresholds = OK
    /\ results[1].status = CRITICAL
    /\ perfData = <<>>

\* C5: at most one performance datum is attached; one is attached exactly
\* when a metric run fetched a non-empty series whose last point is fresh; it
\* carries the metric name, an empty unit and the last point's value, and it
\* is attached before the critical string is parsed
C5_PerfDatum ==
    /\ Len(perfData) <= 1
    /\ Happened("ParseRange(critical)") /\ MetricMode =>
          Happened("AddPerfDatum") /\ Pos("AddPerfDatum") < Pos("ParseRange(critical)")
    /\ perfData # <<>> => FreshPoint /\ perfData[1] = PerfDatum(metricName, "", LastPoint.Value)
    /\ Exited =>
          /\ perfData # <<>> <=> FreshPoint
          /\ output.perfdata = perfData

C5_Witness ==
    /\ Exited /\ FreshPoint /\ ~CriticalValid
    /\ Len(dataPoints) > 1 /\ dataPoints[1].Value # LastPoint.Value
    /\ results[1].status = UNKNOWN
    /\ Len(perfData) = 1

\* C6: a run that created the check exits with the code of its one result's
\* severity: OK 0, WARNING 1, CRITICAL 2, UNKNOWN 3
C6_ExitCode ==
    (Exited /\ checkCreated) =>
        /\ Len(results) = 1
        /\ output.status = results[1].status
        /\ output.message = results[1].message
        /\ exitCode \in 0 .. 3
        /\ results[1].status = OK => exitCode = 0
        /\ results[1].status = WARNING => exitCode = 1
        /\ results[1].status = CRITICAL => exitCode = 2
        /\ results[1].status = UNKNOWN => exitCode = 3

C6_Witness ==
    /\ Exited /\ checkCreated
    /\ results[1].status = WARNING
    /\ exitCode = 1

\* C7 as stated: every run with -g and -H that reaches the API (the client
\* was built) issues exactly one GET, in liveness and in metric mode
C7_ExactlyOneRequest ==
    (Exited /\ FlagsGiven /\ apiErr = Nil) => Len(requests) = 1

\* C7 amended: a run with -g and -H issues no GET when the API client cannot
\* be built, one GET (the host) in liveness mode or when the host fetch
\* fails, and two GETs (the host, then the metric) in metric mode
C7_RequestCount ==
    /\ Len(requests) <= 2
    /\ (Exited /\ FlagsGiven) =>
          Len(requests) =
              IF apiErr # Nil THEN 0
              ELSE IF hostErr # Nil \/ ~MetricMode THEN 1
              ELSE 2
    /\ Len(requests) >= 1 => requests[1].resource = "hosts/byName"
    /\ Len(requests) = 2 => requests[2].resource = "metrics" /\ MetricMode

C7_Witness ==
    /\ Exited /\ FlagsGiven /\ MetricMode
    /\ metricErr = Nil
    /\ Len(requests) = 2

\* C8: a failure to build the API client, to fetch the host or to fetch the
\* metric is the single UNKNOWN result with the error's text, and nothing
\* runs after it: no further request, no parse, no range check, no
\* performance datum
C8_FailureIsTerminal ==
    /\ Failed(apiErr) =>
          /\ Returned
          /\ results = <<Result(UNKNOWN, Msg("Failed to create API. Error: %v", apiErr, 0, 0))>>
          /\ requests = <<>> /\ hostErr = Pending /\ metricErr = Pending
          /\ trace = <<>> /\ perfData = <<>>
    /\ Failed(hostErr) =>
          /\ Returned
          /\ results = <<Result(UNKNOWN, Msg("%v", hostErr, 0, 0))>>
          /\ Len(requests) = 1 /\ metricErr = Pending
          /\ trace = <<>> /\ perfData = <<>>
    /\ Failed(metricErr) =>
          /\ Returned
          /\ results = <<Result(UNKNOWN, Msg("%v", metricErr, 0, 0))>>
          /\ Len(requests) = 2
          /\ trace = <<>> /\ perfData = <<>>
    /\ (Exited /\ (Failed(apiErr) \/ Failed(hostErr) \/ Failed(metricErr))) =>
          exitCode = 3 /\ output.status = UNKNOWN /\ output.perfdata = <<>>

C8_Witness ==
    /\ Exited /\ MetricMode
    /\ hostErr = "API Error"
    /\ ~CriticalValid
    /\ results[1].status = UNKNOWN

\* C9: a metric fetch that succeeds with no data point is UNKNOWN, the
\* message naming the metric; no point is read, no age computed, no
\* threshold parsed or checked and no performance datum attached
C9_NoDataPoints ==
    (MetricMode /\ metricErr = Nil /\ dataPoints = <<>>) =>
        /\ trace = <<>>
        /\ perfData = <<>>
        /\ lastDataPoint = NoDataPoint
        /\ Returned =>
              results = <<Result(UNKNOWN, Msg("No data points found for %v", metricName, 0, 0))>>
        /\ Exited => exitCode = 3 /\ output.perfdata = <<>>

C9_Witness ==
    /\ Exited /\ MetricMode /\ metricErr = Nil /\ dataPoints = <<>>
    /\ ~CriticalValid /\ maxAge < 0
    /\ results[1].status = UNKNOWN

\* C10: without -g or without -H the run prints the usage and exits with 2;
\* no check is created, no API client built, no request issued, no result
\* recorded and no status line printed
C10_UsageExit ==
    (groupId = "" \/ hostname = "") =>
        /\ pc \in {"main", "exited"}
        /\ ~checkCreated
        /\ apiErr = Pending
        /\ requests = <<>>
        /\ results = <<>>
        /\ output = NoOutput
        /\ Exited => usagePrinted /\ exitCode = 2

C10_Witness ==
    /\ Exited
    /\ groupId = "" /\ hostname # ""
    /\ MetricMode /\ ~CriticalValid
    /\ usagePrinted /\ exitCode = 2

=============================================================================
